---------------------------- MODULE Spec2Model ----------------------------
(***************************************************************************)
(* Field filter of the sumologic exporter (filter.go) and the host         *)
(* metadata pusher of the datadog exporter (hostmetadata package).         *)
(*                                                                         *)
(* FilterSpec : newFilter / filterIn / filterOut over bounded rule and     *)
(*              attribute sets.                                            *)
(* Spec       : the Pusher goroutine (build once, push at startup, push on *)
(*              every tick until the context is cancelled) together with   *)
(*              its environment (ticker, context, HTTP endpoint, probes).  *)
(***************************************************************************)
EXTENDS Integers, Sequences, FiniteSets, TLC

VARIABLES
    \* ---- filter.go ----
    fpc,            \* position of the filter client: "new" | "built"
    flds,           \* the pattern strings handed to newFilter
    f,              \* the filter value newFilter returned
    ferr,           \* the error newFilter returned ("nil" when none)
    attributes,     \* the pdata.AttributeMap handed to filterIn / filterOut
    inResult,       \* what filterIn returned last  ([set, fields])
    outResult,      \* what filterOut returned last ([set, fields])
    \* ---- hostmetadata: inputs of Pusher ----
    attrs,          \* the resource attributes (pcommon.Map) given to Pusher
    pcfg,           \* PusherConfig
    \* ---- hostmetadata: the Pusher goroutine ----
    pc,             \* position of the goroutine
    hostMetadata,   \* the *payload.HostMetadata built once
    probes,         \* what each probe collaborator was asked and answered
    attempts,       \* calls of pushMetadata in the current push cycle
    failures,       \* of which returned an error
    cycleRequests,  \* HTTP requests issued in the current push cycle
    lastAttempt,    \* record of the last pushMetadata call
    lastCycle,      \* outcome of the last finished pushMetadataWithRetry
    cycles,         \* pushMetadataWithRetry calls started
    inFlight,       \* HTTP requests sent and not yet answered
    openBodies,     \* response bodies obtained and not yet closed
    \* ---- hostmetadata: environment ----
    cancelled,      \* ctx.Done() is closed
    tickPending,    \* a tick is buffered in ticker.C
    ticks,          \* ticks the ticker has delivered
    tickerStopped,  \* ticker.Stop() has run
    ticksDropped,   \* ticks that found ticker.C full and were dropped
    cancelAt        \* where Pusher was when ctx was cancelled

filterVars == <<fpc, flds, f, ferr, attributes, inResult, outResult>>
inputVars  == <<attrs, pcfg>>
pushVars   == <<pc, hostMetadata, probes, attempts, failures, cycleRequests,
                lastAttempt, lastCycle, cycles, inFlight, openBodies>>
envVars    == <<cancelled, tickPending, ticks, tickerStopped, ticksDropped,
                cancelAt>>
vars       == <<filterVars, inputVars, pushVars, envVars>>

-----------------------------------------------------------------------------
(***************************************************************************)
(* Bounds                                                                  *)
(***************************************************************************)
MaxRules == 2       \* patterns in one rule set
MaxAttrs == 2       \* entries in one attribute map
MaxAttempts == 3    \* retrySettings: attempts of one push cycle
MaxTicks == 2       \* ticks the ticker delivers in one run

-----------------------------------------------------------------------------
(***************************************************************************)
(* regexp: patterns are sequences of one-character strings.                *)
(***************************************************************************)
Patterns ==
    { <<"^", "b">>, <<"a", "$">>, <<".", "a">>, <<"^", "b", "*", "$">>,
      <<"(">>, <<"a", "*", "*">> }

Keys == { <<"a">>, <<"b">>, <<"b", "a">> }

Node(op, ch) == [op |-> op, ch |-> ch, star |-> FALSE]

\* regexp/syntax parse of one pattern, left to right: stack is the program so
\* far, lastRepeat whether the previous token was a repetition, open the
\* number of unclosed left parentheses.
RECURSIVE ParseFrom(_, _, _, _, _)
ParseFrom(fld, i, stack, lastRepeat, open) ==
    IF i > Len(fld)
    THEN IF open > 0
         THEN [err |-> "missing closing )", prog |-> <<>>]
         ELSE [err |-> "nil", prog |-> stack]
    ELSE LET c == fld[i] IN
         CASE c = "*" ->
                IF lastRepeat
                THEN [err |-> "invalid nested repetition operator", prog |-> <<>>]
                ELSE IF Len(stack) = 0 \/ stack[Len(stack)].op = "lparen"
                THEN [err |-> "missing argument to repetition operator", prog |-> <<>>]
                ELSE ParseFrom(fld, i + 1,
                               [stack EXCEPT ![Len(stack)].star = TRUE], TRUE, open)
           [] c = "(" ->
                ParseFrom(fld, i + 1, Append(stack, Node("lparen", "")), FALSE, open + 1)
           [] c = "." ->
                ParseFrom(fld, i + 1, Append(stack, Node("any", "")), FALSE, open)
           [] c = "^" ->
                ParseFrom(fld, i + 1, Append(stack, Node("bol", "")), FALSE, open)
           [] c = "$" ->
                ParseFrom(fld, i + 1, Append(stack, Node("eol", "")), FALSE, open)
           [] OTHER ->
                ParseFrom(fld, i + 1, Append(stack, Node("lit", c)), FALSE, open)

\* regexp.Compile
Compile(fld) == ParseFrom(fld, 1, <<>>, FALSE, 0)

AtomMatches(n, c) == n.op = "any" \/ (n.op = "lit" /\ n.ch = c)

\* Does prog[i..] match s starting at position pos?
RECURSIVE MatchHere(_, _, _, _)
MatchHere(prog, i, s, pos) ==
    IF i > Len(prog) THEN TRUE
    ELSE LET n == prog[i] IN
         IF n.op \in {"bol", "eol"}
         THEN \/ /\ n.star
                 /\ MatchHere(prog, i + 1, s, pos)
              \/ /\ IF n.op = "bol" THEN pos = 1 ELSE pos = Len(s) + 1
                 /\ MatchHere(prog, i + 1, s, pos)
         ELSE IF n.star
         THEN \E j \in pos..(Len(s) + 1) :
                 /\ \A t \in pos..(j - 1) : AtomMatches(n, s[t])
                 /\ MatchHere(prog, i + 1, s, j)
         ELSE /\ pos <= Len(s)
              /\ AtomMatches(n, s[pos])
              /\ MatchHere(prog, i + 1, s, pos + 1)

\* (*regexp.Regexp).MatchString: an unanchored search
MatchString(regex, k) == \E pos \in 1..(Len(k) + 1) : MatchHere(regex, 1, k, pos)

-----------------------------------------------------------------------------
(***************************************************************************)
(* tracetranslator.AttributeValueToString(v, false)                        *)
(***************************************************************************)
Value(type, str, int, bool) == [type |-> type, str |-> str, int |-> int, bool |-> bool]

Values ==
    { Value("STRING", "x", 0, FALSE), Value("INT", "", -12, FALSE),
      Value("BOOL", "", 0, TRUE), Value("NULL", "", 0, FALSE) }

Digit(d) ==
    CASE d = 0 -> "0" [] d = 1 -> "1" [] d = 2 -> "2" [] d = 3 -> "3"
      [] d = 4 -> "4" [] d = 5 -> "5" [] d = 6 -> "6" [] d = 7 -> "7"
      [] d = 8 -> "8" [] d = 9 -> "9"

RECURSIVE FormatNat(_)
FormatNat(n) == IF n < 10 THEN Digit(n) ELSE FormatNat(n \div 10) \o Digit(n % 10)

\* strconv.FormatInt(n, 10)
FormatInt(n) == IF n < 0 THEN "-" \o FormatNat(0 - n) ELSE FormatNat(n)

\* strconv.FormatBool
FormatBool(b) == IF b THEN "true" ELSE "false"

AttributeValueToString(v) ==
    CASE v.type = "NULL" -> ""
      [] v.type = "STRING" -> v.str
      [] v.type = "BOOL" -> FormatBool(v.bool)
      [] v.type = "INT" -> FormatInt(v.int)

-----------------------------------------------------------------------------
(***************************************************************************)
(* filter.go                                                               *)
(***************************************************************************)
\* type filter struct { regexes []*regexp.Regexp }; filter{} has no regexes
ZeroFilter == [regexes |-> <<>>]

\* fields (map[string]string) is a set of keys with a value for each key.
\* make(fields)
EmptyFields == [set |-> {}, val |-> [k \in Keys |-> ""]]

\* returnValue[k] = s
FieldsPut(flds0, k, s) ==
    [set |-> flds0.set \cup {k}, val |-> [flds0.val EXCEPT ![k] = s]]

\* metadataRegexes := make([]*regexp.Regexp, len(flds))
MakeRegexes(n) == [i \in 1..n |-> "nil"]

\* newFilter's loop that hands back what it compiled so far on an error
RECURSIVE NewFilterLoopPartial(_, _, _)
NewFilterLoopPartial(fs, i, metadataRegexes) ==
    IF i > Len(fs)
    THEN [filter |-> [regexes |-> metadataRegexes], err |-> "nil"]
    ELSE LET c == Compile(fs[i]) IN
         IF c.err # "nil"
         THEN [filter |-> [regexes |-> metadataRegexes], err |-> c.err]
         ELSE NewFilterLoopPartial(fs, i + 1, [metadataRegexes EXCEPT ![i] = c.prog])

\* the loop of newFilter, from entry i of flds on
RECURSIVE NewFilterLoop(_, _, _)
NewFilterLoop(fs, i, metadataRegexes) ==
    IF i > Len(fs)
    THEN [filter |-> [regexes |-> metadataRegexes], err |-> "nil"]
    ELSE LET c == Compile(fs[i]) IN
         IF c.err # "nil"
         THEN [filter |-> ZeroFilter, err |-> c.err]
         ELSE NewFilterLoop(fs, i + 1, [metadataRegexes EXCEPT ![i] = c.prog])

\* newFilter handing back the partly filled rule set with the error
newFilterPartial(fs) == NewFilterLoopPartial(fs, 1, MakeRegexes(Len(fs)))

newFilter(fs) == NewFilterLoop(fs, 1, MakeRegexes(Len(fs)))

\* for _, regex := range f.regexes { if regex.MatchString(k) ... }
MatchesAny(flt, k) == \E r \in 1..Len(flt.regexes) : MatchString(flt.regexes[r], k)

\* attributes.ForEach of filterIn, from entry i on
RECURSIVE FilterInLoop(_, _, _, _)
FilterInLoop(flt, as, i, returnValue) ==
    IF i > Len(as) THEN returnValue
    ELSE FilterInLoop(flt, as, i + 1,
            IF MatchesAny(flt, as[i].k)
            THEN FieldsPut(returnValue, as[i].k, AttributeValueToString(as[i].v))
            ELSE returnValue)

\* filterIn that leaves the rule loop after the first rule, matching or not
RECURSIVE FilterInFirstRuleLoop(_, _, _, _)
FilterInFirstRuleLoop(flt, as, i, returnValue) ==
    IF i > Len(as) THEN returnValue
    ELSE FilterInFirstRuleLoop(flt, as, i + 1,
            IF Len(flt.regexes) > 0 /\ MatchString(flt.regexes[1], as[i].k)
            THEN FieldsPut(returnValue, as[i].k, AttributeValueToString(as[i].v))
            ELSE returnValue)

filterInFirstRule(flt, as) == FilterInFirstRuleLoop(flt, as, 1, EmptyFields)

filterIn(flt, as) == FilterInLoop(flt, as, 1, EmptyFields)

\* attributes.ForEach of filterOut, from entry i on
RECURSIVE FilterOutLoop(_, _, _, _)
FilterOutLoop(flt, as, i, returnValue) ==
    IF i > Len(as) THEN returnValue
    ELSE FilterOutLoop(flt, as, i + 1,
            IF MatchesAny(flt, as[i].k)
            THEN returnValue
            ELSE FieldsPut(returnValue, as[i].k, AttributeValueToString(as[i].v)))

\* filterOut whose rule loop does break where the code does return: every
\* key reaches the assignment after the loop
RECURSIVE FilterOutBreakLoop(_, _, _, _)
FilterOutBreakLoop(flt, as, i, returnValue) ==
    IF i > Len(as) THEN returnValue
    ELSE FilterOutBreakLoop(flt, as, i + 1,
            FieldsPut(returnValue, as[i].k, AttributeValueToString(as[i].v)))

filterOutBreak(flt, as) == FilterOutBreakLoop(flt, as, 1, EmptyFields)

filterOut(flt, as) == FilterOutLoop(flt, as, 1, EmptyFields)

-----------------------------------------------------------------------------
(***************************************************************************)
(* hostmetadata: data                                                      *)
(***************************************************************************)
HostnameKind == "host"
AWSECSFargateKind == "task_arn"

\* source.Source with the ok / err flag of the call that produced it
Source(ok, kind, id) == [ok |-> ok, Kind |-> kind, Identifier |-> id]
NoSource == Source(FALSE, "", "")

\* ec2.HostInfo (attributes or probe), gcp.HostInfo, system.HostInfo
EC2HostInfo(id, host, tags) == [InstanceID |-> id, EC2Hostname |-> host, EC2Tags |-> tags]
GCPHostInfo(tags, aliases) == [GCPTags |-> tags, HostAliases |-> aliases]
SystemHostInfo(os, fqdn) == [OS |-> os, FQDN |-> fqdn]

NoEC2 == EC2HostInfo("", "", <<>>)
NoGCP == GCPHostInfo(<<>>, <<>>)

\* The resource attributes, by what the attribute readers used by
\* metadataFromAttributes find in them.
Attrs(src, provider, ec2, gcp) ==
    [source |-> src, cloudProvider |-> provider, ec2 |-> ec2, gcp |-> gcp]

AttrSources == { NoSource, Source(TRUE, HostnameKind, "h1"),
                 Source(TRUE, HostnameKind, ""),
                 Source(TRUE, AWSECSFargateKind, "task1") }

AttrSets ==
    { Attrs(s, p, NoEC2, NoGCP) : s \in AttrSources, p \in {"", "azure"} }
    \cup { Attrs(s, "aws", EC2HostInfo(id, h, <<"Name:web">>), NoGCP) :
             s \in AttrSources, id \in {"", "i-1"}, h \in {"", "e1"} }
    \cup { Attrs(s, "gcp", NoEC2, GCPHostInfo(<<"zone:z1">>, <<"h1.proj">>)) :
             s \in AttrSources }

\* PusherConfig and exporter.CreateSettings.BuildInfo
Configs ==
    [UseResourceMetadata : BOOLEAN, MetricsEndpoint : {"https://api"},
     ConfigTags : {<<"env:prod">>}]

BuildInfo == [Command |-> "otelcol", Version |-> "1.0"]

\* What the probe collaborators may answer
ProviderAnswers == { NoSource, Source(TRUE, HostnameKind, "h2"),
                     Source(TRUE, AWSECSFargateKind, "task2") }
EC2Answers == { EC2HostInfo(id, h, <<>>) : id \in {"", "i-2"}, h \in {"", "e2"} }
SystemAnswers == { SystemHostInfo("", ""), SystemHostInfo("linux", "host.local") }

\* &payload.HostMetadata{Meta: &payload.Meta{}, Tags: &payload.HostTags{}}
EmptyHostMetadata ==
    [InternalHostname |-> "",
     Meta |-> [Hostname |-> "", InstanceID |-> "", EC2Hostname |-> "",
               SocketHostname |-> "", SocketFqdn |-> "", HostAliases |-> <<>>],
     Tags |-> [OTel |-> <<>>, GCP |-> <<>>],
     Flavor |-> "", Version |-> "",
     Payload |-> [set |-> FALSE],
     Processes |-> [set |-> FALSE, host |-> ""]]

\* The record of one probe collaborator: times called, last answer
NotCalled(zero) == [calls |-> 0, ans |-> zero]
Called(pr, ans) == [calls |-> pr.calls + 1, ans |-> ans]

NoProbes ==
    [source |-> NotCalled(NoSource), ec2 |-> NotCalled(NoEC2),
     system |-> NotCalled(SystemHostInfo("", "")), gohai |-> 0]

-----------------------------------------------------------------------------
(***************************************************************************)
(* hostmetadata: the merger                                                *)
(***************************************************************************)
\* attributes.SourceFromAttrs(attrs)
SourceFromAttrs(a) == a.source

\* attrs.Get(conventions.AttributeCloudProvider)
CloudProvider(a) == [ok |-> a.cloudProvider # "", str |-> a.cloudProvider]

\* ec2Attributes.HostInfoFromAttributes(attrs)
HostInfoFromAttributes(a) == a.ec2

\* gcp.HostInfoFromAttrs(attrs)
HostInfoFromAttrs(a) == a.gcp

metadataFromAttributes(a) ==
    LET src == SourceFromAttrs(a)
        hm0 == EmptyHostMetadata
        hm1 == IF src.ok /\ src.Kind = HostnameKind
               THEN [hm0 EXCEPT !.InternalHostname = src.Identifier,
                                !.Meta.Hostname = src.Identifier]
               ELSE hm0
        cloudProvider == CloudProvider(a)
    IN  CASE cloudProvider.ok /\ cloudProvider.str = "aws" ->
               LET ec2HostInfo == HostInfoFromAttributes(a) IN
               [hm1 EXCEPT !.Meta.InstanceID = ec2HostInfo.InstanceID,
                           !.Meta.EC2Hostname = ec2HostInfo.EC2Hostname,
                           !.Tags.OTel = @ \o ec2HostInfo.EC2Tags]
          [] cloudProvider.ok /\ cloudProvider.str = "gcp" ->
               LET gcpHostInfo == HostInfoFromAttrs(a) IN
               [hm1 EXCEPT !.Tags.GCP = gcpHostInfo.GCPTags,
                           !.Meta.HostAliases = @ \o gcpHostInfo.HostAliases]
          [] OTHER -> hm1

\* fillHostMetadata, lines 61-67: the Source Provider is asked when the
\* document has no internal hostname
AsksSource(hm) == hm.InternalHostname = ""

\* FillHostname writing the internal hostname alone
FillHostnameInternalOnly(p, hm) ==
    IF AsksSource(hm) /\ p.ok /\ p.Kind = HostnameKind
    THEN [hm EXCEPT !.InternalHostname = p.Identifier]
    ELSE hm

\* FillHostname without the test of the internal hostname
FillHostnameAlways(p, hm) ==
    IF p.ok /\ p.Kind = HostnameKind
    THEN [hm EXCEPT !.InternalHostname = p.Identifier,
                    !.Meta.Hostname = p.Identifier]
    ELSE hm

\* FillHostname without the test of the source's kind
FillHostnameAnyKind(p, hm) ==
    IF AsksSource(hm) /\ p.ok
    THEN [hm EXCEPT !.InternalHostname = p.Identifier,
                    !.Meta.Hostname = p.Identifier]
    ELSE hm

FillHostname(p, hm) ==
    IF AsksSource(hm) /\ p.ok /\ p.Kind = HostnameKind
    THEN [hm EXCEPT !.InternalHostname = p.Identifier,
                    !.Meta.Hostname = p.Identifier]
    ELSE hm

\* fillHostMetadata, lines 69-75: what is always filled in
FillAlways(cfg, hm) ==
    [hm EXCEPT !.Flavor = BuildInfo.Command,
               !.Version = BuildInfo.Version,
               !.Tags.OTel = @ \o cfg.ConfigTags,
               !.Payload = [set |-> TRUE],
               !.Processes = [set |-> TRUE, host |-> hm.Meta.Hostname]]

\* fillHostMetadata, lines 76-81: the EC2 probe is asked when the document
\* has no EC2 hostname
AsksEC2(hm) == hm.Meta.EC2Hostname = ""

FillEC2(e, hm) ==
    IF AsksEC2(hm)
    THEN [hm EXCEPT !.Meta.EC2Hostname = e.EC2Hostname,
                    !.Meta.InstanceID = e.InstanceID]
    ELSE hm

\* fillHostMetadata, lines 83-88: the system probe is asked when the
\* document has no socket hostname
AsksSystem(hm) == hm.Meta.SocketHostname = ""

FillSystem(sys, hm) ==
    IF AsksSystem(hm)
    THEN [hm EXCEPT !.Meta.SocketHostname = sys.OS,
                    !.Meta.SocketFqdn = sys.FQDN]
    ELSE hm

\* fillHostMetadata: p, e and sys are what p.Source, ec2.GetHostInfo and
\* system.GetHostInfo answer when they are called; pr is the record of the
\* probe calls so far.  Yields the filled document and the new record.
fillHostMetadata(cfg, p, e, sys, pr, hm) ==
    LET hm1 == FillHostname(p, hm)
        hm2 == FillAlways(cfg, hm1)
        hm3 == FillEC2(e, hm2)
        hm4 == FillSystem(sys, hm3)
    IN  [hm |-> hm4,
         probes |-> [source |-> IF AsksSource(hm) THEN Called(pr.source, p) ELSE pr.source,
                     ec2    |-> IF AsksEC2(hm2) THEN Called(pr.ec2, e) ELSE pr.ec2,
                     system |-> IF AsksSystem(hm3) THEN Called(pr.system, sys) ELSE pr.system,
                     gohai  |-> pr.gohai + 1]]

\* SeedDocument that reads the attributes whatever the configuration says
SeedDocumentAlways(cfg, a) == metadataFromAttributes(a)

\* Pusher, lines 153-156: the document handed to fillHostMetadata
SeedDocument(cfg, a) ==
    IF cfg.UseResourceMetadata THEN metadataFromAttributes(a) ELSE EmptyHostMetadata

-----------------------------------------------------------------------------
(***************************************************************************)
(* hostmetadata: one delivery attempt and the retry orchestrator           *)
(***************************************************************************)
\* What client.Do may come back with: a transport error (no response), or a
\* response with a status code.
HTTPOutcomes ==
    { [err |-> TRUE, StatusCode |-> 0] }
    \cup { [err |-> FALSE, StatusCode |-> c] : c \in {200, 399, 400, 503} }

\* pushMetadata without the hostname test
SkipsPushNever(metadata) == FALSE

\* pushMetadata, lines 92-96: the hostname is empty, nothing is sent
SkipsPush(metadata) == metadata.Meta.Hostname = ""

\* pushMetadata, lines 98-100: the request
NewRequest(cfg, metadata) ==
    [Method |-> "POST", path |-> cfg.MetricsEndpoint \o "/intake", body |-> metadata]

\* pushMetadata taking status 400 for a success
PushErrorAbove400(o) ==
    IF o.err THEN "transport"
    ELSE IF o.StatusCode > 400 THEN "rejected" ELSE "nil"

\* pushMetadata, lines 104-120: the error returned for an outcome of client.Do
PushError(o) ==
    IF o.err THEN "transport"
    ELSE IF o.StatusCode >= 400 THEN "rejected" ELSE "nil"

\* pushMetadata, line 104: response bodies client.Do hands over (none with
\* an error)
BodiesObtained(o) == IF o.err THEN 0 ELSE 1

\* resp.Body.Close() deferred only after the status test: a rejected
\* response keeps its body open
BodiesClosedOnSuccess(o) == IF o.err \/ o.StatusCode >= 400 THEN 0 ELSE 1

\* pushMetadata, line 110: bodies closed by the deferred resp.Body.Close()
\* when the call returns (the defer is registered after the error return)
BodiesClosed(o) == IF o.err THEN 0 ELSE 1

\* pushMetadata, lines 110-120: bodies read to their end before the call
\* returns (resp.Body is never read)
BodiesDrained(o) == 0

\* Retrier.DoWithRetries: what it does after an attempt that returned err,
\* n attempts having been made: return nil, retry after a backoff, or give up.
RetryDecision(err, n) ==
    IF err = "nil" THEN "success"
    ELSE IF n < MaxAttempts THEN "retry" ELSE "exhausted"

\* Retrier.DoWithRetries: the error it returns
RetrierError(decision) == IF decision = "exhausted" THEN "RetryExhausted" ELSE "nil"

\* pushMetadataWithRetry handing the error on to its caller
CycleOutcomeRaised(err, n) ==
    [err |-> err, log |-> IF err # "nil" THEN "warn" ELSE "info",
     returned |-> err, attempts |-> n]

\* pushMetadataWithRetry, lines 130-136: the log entry, and what is handed
\* back to Pusher (the function has no result)
CycleOutcome(err, n) ==
    [err |-> err, log |-> IF err # "nil" THEN "warn" ELSE "info",
     returned |-> "nil", attempts |-> n]

NoRequest == [Method |-> "", path |-> "", body |-> EmptyHostMetadata]
NoOutcome == [err |-> FALSE, StatusCode |-> 0]
NoAttempt == [skipped |-> FALSE, requests |-> 0, request |-> NoRequest,
              outcome |-> NoOutcome, err |-> "none",
              bodies |-> 0, closed |-> 0, drained |-> 0]
NoCycle == [err |-> "none", log |-> "none", returned |-> "nil", attempts |-> 0]

-----------------------------------------------------------------------------
(***************************************************************************)
(* Actions of the filter client                                            *)
(***************************************************************************)
FldSeqs == UNION { [1..n -> Patterns] : n \in 0..MaxRules }

\* pdata.AttributeMap: a slice of key/value entries, no key twice
AttrMaps ==
    { as \in UNION { [1..n -> [k : Keys, v : Values]] : n \in 0..MaxAttrs } :
        \A i, j \in 1..Len(as) : as[i].k = as[j].k => i = j }

NoResult == [done |-> FALSE, fields |-> EmptyFields]

FilterIdle ==
    /\ fpc = "new" /\ flds = <<>> /\ f = ZeroFilter /\ ferr = "nil"
    /\ attributes = <<>> /\ inResult = NoResult /\ outResult = NoResult

NewFilter ==
    /\ fpc = "new"
    /\ LET r == newFilter(flds) IN f' = r.filter /\ ferr' = r.err
    /\ fpc' = "built"
    /\ UNCHANGED <<flds, attributes, inResult, outResult>>

FilterIn ==
    /\ fpc = "built"
    /\ inResult' = [done |-> TRUE, fields |-> filterIn(f, attributes)]
    /\ UNCHANGED <<fpc, flds, f, ferr, attributes, outResult>>

FilterOut ==
    /\ fpc = "built"
    /\ outResult' = [done |-> TRUE, fields |-> filterOut(f, attributes)]
    /\ UNCHANGED <<fpc, flds, f, ferr, attributes, inResult>>

-----------------------------------------------------------------------------
(***************************************************************************)
(* Actions of the Pusher goroutine and of its environment                  *)
(***************************************************************************)
\* Pusher is inside pushMetadataWithRetry
InPush == pc \in {"attempt", "inflight", "backoff"}

\* ctx before it is cancelled
NotCancelled == [pc |-> "none", ticks |-> 0]

PusherIdle ==
    /\ pc = "start" /\ hostMetadata = EmptyHostMetadata /\ probes = NoProbes
    /\ attempts = 0 /\ failures = 0 /\ cycleRequests = 0
    /\ lastAttempt = NoAttempt /\ lastCycle = NoCycle /\ cycles = 0
    /\ inFlight = 0 /\ openBodies = 0
    /\ cancelled = FALSE /\ tickPending = FALSE /\ ticks = 0
    /\ tickerStopped = FALSE /\ ticksDropped = 0 /\ cancelAt = NotCancelled

\* pushMetadataWithRetry is entered: DoWithRetries is about to call fn
BeginCycle ==
    /\ cycles' = cycles + 1
    /\ attempts' = 0 /\ failures' = 0 /\ cycleRequests' = 0
    /\ pc' = "attempt"

\* DoWithRetries given Pusher's ctx in place of context.Background(): once
\* ctx is cancelled a failed attempt is not retried
AfterAttemptCancellable(err) ==
    LET decision == RetryDecision(err, attempts') IN
    /\ failures' = failures + (IF err = "nil" THEN 0 ELSE 1)
    /\ IF decision = "retry" /\ ~cancelled
       THEN pc' = "backoff" /\ UNCHANGED lastCycle
       ELSE /\ pc' = "wait"
            /\ lastCycle' = CycleOutcome(IF decision = "success" THEN "nil"
                                         ELSE "RetryExhausted", attempts')

\* pushMetadataWithRetry handing the retrier's error to Pusher, which
\* returns on it
AfterAttemptFatal(err) ==
    LET decision == RetryDecision(err, attempts') IN
    /\ failures' = failures + (IF err = "nil" THEN 0 ELSE 1)
    /\ IF decision = "retry"
       THEN pc' = "backoff" /\ UNCHANGED lastCycle
       ELSE /\ pc' = IF decision = "exhausted" THEN "done" ELSE "wait"
            /\ lastCycle' = CycleOutcome(RetrierError(decision), attempts')

\* DoWithRetries and pushMetadataWithRetry after pushMetadata returned err
AfterAttempt(err) ==
    LET decision == RetryDecision(err, attempts') IN
    /\ failures' = failures + (IF err = "nil" THEN 0 ELSE 1)
    /\ IF decision = "retry"
       THEN pc' = "backoff" /\ UNCHANGED lastCycle
       ELSE /\ pc' = "wait"
            /\ lastCycle' = CycleOutcome(RetrierError(decision), attempts')

\* Pusher without the push at startup (line 160): it goes straight to the
\* select
BuildDocumentNoStartupPush ==
    /\ pc = "start"
    /\ \E p \in ProviderAnswers, e \in EC2Answers, sys \in SystemAnswers :
         LET r == fillHostMetadata(pcfg, p, e, sys, probes, SeedDocument(pcfg, attrs))
         IN  hostMetadata' = r.hm /\ probes' = r.probes
    /\ pc' = "wait"
    /\ UNCHANGED <<attempts, failures, cycleRequests, cycles>>
    /\ UNCHANGED <<lastAttempt, lastCycle, inFlight, openBodies>>
    /\ UNCHANGED <<filterVars, inputVars, envVars>>

\* Pusher, lines 141-160: ticker, retrier, the document, the startup push
BuildDocument ==
    /\ pc = "start"
    /\ \E p \in ProviderAnswers, e \in EC2Answers, sys \in SystemAnswers :
         LET r == fillHostMetadata(pcfg, p, e, sys, probes, SeedDocument(pcfg, attrs))
         IN  hostMetadata' = r.hm /\ probes' = r.probes
    /\ BeginCycle
    /\ UNCHANGED <<lastAttempt, lastCycle, inFlight, openBodies>>
    /\ UNCHANGED <<filterVars, inputVars, envVars>>

\* pushMetadata with an empty hostname: returns nil without a request
PushSkip ==
    /\ pc = "attempt"
    /\ SkipsPush(hostMetadata)
    /\ attempts' = attempts + 1
    /\ lastAttempt' = [NoAttempt EXCEPT !.skipped = TRUE, !.err = "nil"]
    /\ AfterAttempt("nil")
    /\ UNCHANGED <<hostMetadata, probes, cycleRequests, cycles, inFlight, openBodies>>
    /\ UNCHANGED <<filterVars, inputVars, envVars>>

\* pushMetadata up to client.Do: the request goes out
PushSend ==
    /\ pc = "attempt"
    /\ ~SkipsPush(hostMetadata)
    /\ attempts' = attempts + 1
    /\ cycleRequests' = cycleRequests + 1
    /\ inFlight' = inFlight + 1
    /\ lastAttempt' = [NoAttempt EXCEPT !.requests = 1,
                                        !.request = NewRequest(pcfg, hostMetadata),
                                        !.err = "pending"]
    /\ pc' = "inflight"
    /\ UNCHANGED <<hostMetadata, probes, failures, lastCycle, cycles, openBodies>>
    /\ UNCHANGED <<filterVars, inputVars, envVars>>

\* client.Do returns; pushMetadata classifies the outcome and returns
PushReturn ==
    /\ pc = "inflight"
    /\ \E o \in HTTPOutcomes :
         /\ inFlight' = inFlight - 1
         /\ openBodies' = openBodies + BodiesObtained(o) - BodiesClosed(o)
         /\ lastAttempt' = [lastAttempt EXCEPT !.outcome = o, !.err = PushError(o),
                                              !.bodies = BodiesObtained(o),
                                              !.closed = BodiesClosed(o),
                                              !.drained = BodiesDrained(o)]
         /\ UNCHANGED attempts
         /\ AfterAttempt(PushError(o))
    /\ UNCHANGED <<hostMetadata, probes, cycleRequests, cycles>>
    /\ UNCHANGED <<filterVars, inputVars, envVars>>

\* DoWithRetries: the backoff delay has passed
BackoffElapsed ==
    /\ pc = "backoff"
    /\ pc' = "attempt"
    /\ UNCHANGED <<hostMetadata, probes, attempts, failures, cycleRequests,
                   lastAttempt, lastCycle, cycles, inFlight, openBodies>>
    /\ UNCHANGED <<filterVars, inputVars, envVars>>

\* The select calling fillHostMetadata again on the document before the
\* push of a tick, without a deep copy
SelectTickRefill ==
    /\ pc = "wait"
    /\ tickPending
    /\ tickPending' = FALSE
    /\ \E p \in ProviderAnswers, e \in EC2Answers, sys \in SystemAnswers :
         LET r == fillHostMetadata(pcfg, p, e, sys, probes, hostMetadata)
         IN  hostMetadata' = r.hm /\ probes' = r.probes
    /\ BeginCycle
    /\ UNCHANGED <<lastAttempt, lastCycle, inFlight, openBodies>>
    /\ UNCHANGED <<cancelled, ticks, tickerStopped, ticksDropped, cancelAt>>
    /\ UNCHANGED <<filterVars, inputVars>>

\* The select starting the push of a tick in a goroutine of its own and
\* going back to the select: a tick is taken while a push is in progress
SelectTickAsync ==
    /\ pc = "wait" \/ InPush
    /\ tickPending
    /\ tickPending' = FALSE
    /\ BeginCycle
    /\ UNCHANGED <<hostMetadata, probes, lastAttempt, lastCycle, inFlight, openBodies>>
    /\ UNCHANGED <<cancelled, ticks, tickerStopped, ticksDropped, cancelAt>>
    /\ UNCHANGED <<filterVars, inputVars>>

\* Pusher, lines 166-167: the select takes a tick
SelectTick ==
    /\ pc = "wait"
    /\ tickPending
    /\ tickPending' = FALSE
    /\ BeginCycle
    /\ UNCHANGED <<hostMetadata, probes, lastAttempt, lastCycle, inFlight, openBodies>>
    /\ UNCHANGED <<cancelled, ticks, tickerStopped, ticksDropped, cancelAt>>
    /\ UNCHANGED <<filterVars, inputVars>>

\* Pusher returning without the deferred ticker.Stop() of line 142
SelectDoneNoStop ==
    /\ pc = "wait"
    /\ cancelled
    /\ pc' = "done"
    /\ UNCHANGED <<hostMetadata, probes, attempts, failures, cycleRequests,
                   lastAttempt, lastCycle, cycles, inFlight, openBodies>>
    /\ UNCHANGED envVars
    /\ UNCHANGED <<filterVars, inputVars>>

\* The ctx.Done() case leaving only the select, not the loop (a break in
\* place of the return)
SelectDoneBreak ==
    /\ pc = "wait"
    /\ cancelled
    /\ UNCHANGED vars

\* Pusher, lines 164-165 and the deferred ticker.Stop(): the select takes
\* ctx.Done()
SelectDone ==
    /\ pc = "wait"
    /\ cancelled
    /\ pc' = "done"
    /\ tickerStopped' = TRUE
    /\ UNCHANGED <<hostMetadata, probes, attempts, failures, cycleRequests,
                   lastAttempt, lastCycle, cycles, inFlight, openBodies>>
    /\ UNCHANGED <<cancelled, tickPending, ticks, ticksDropped, cancelAt>>
    /\ UNCHANGED <<filterVars, inputVars>>

\* The owner of ctx cancels it
Cancel ==
    /\ ~cancelled
    /\ cancelled' = TRUE
    /\ cancelAt' = [pc |-> IF InPush THEN "push" ELSE "idle", ticks |-> ticks]
    /\ UNCHANGED <<tickPending, ticks, tickerStopped, ticksDropped>>
    /\ UNCHANGED <<filterVars, inputVars, pushVars>>

\* The ticker's period passes: a tick is put in ticker.C, or dropped when
\* one is already buffered there
Tick ==
    /\ ~tickerStopped
    /\ ticks < MaxTicks
    /\ ticks' = ticks + 1
    /\ tickPending' = TRUE
    /\ ticksDropped' = ticksDropped + (IF tickPending THEN 1 ELSE 0)
    /\ UNCHANGED <<cancelled, tickerStopped, cancelAt>>
    /\ UNCHANGED <<filterVars, inputVars, pushVars>>

-----------------------------------------------------------------------------
(***************************************************************************)
(* Specifications                                                          *)
(***************************************************************************)
FilterInit ==
    /\ fpc = "new" /\ flds \in FldSeqs /\ attributes \in AttrMaps
    /\ f = ZeroFilter /\ ferr = "nil"
    /\ inResult = NoResult /\ outResult = NoResult
    /\ attrs = Attrs(NoSource, "", NoEC2, NoGCP)
    /\ pcfg \in { c \in Configs : ~c.UseResourceMetadata }
    /\ PusherIdle

FilterNext ==
    \/ NewFilter /\ UNCHANGED <<inputVars, pushVars, envVars>>
    \/ FilterIn /\ UNCHANGED <<inputVars, pushVars, envVars>>
    \/ FilterOut /\ UNCHANGED <<inputVars, pushVars, envVars>>

FilterSpec == FilterInit /\ [][FilterNext]_vars

Init ==
    /\ FilterIdle
    /\ attrs \in AttrSets
    /\ pcfg \in Configs
    /\ PusherIdle

Next ==
    \/ BuildDocument
    \/ PushSkip
    \/ PushSend
    \/ PushReturn
    \/ BackoffElapsed
    \/ SelectTick
    \/ SelectDone
    \/ Cancel
    \/ Tick

Spec == Init /\ [][Next]_vars

\* The steps of the Pusher goroutine
PusherStep ==
    \/ BuildDocument
    \/ PushSkip
    \/ PushSend
    \/ PushReturn
    \/ BackoffElapsed
    \/ SelectTick
    \/ SelectDone

\* Inputs that differ in what the loop can see of the document: whether it
\* has a hostname
LiveAttrSets ==
    { Attrs(NoSource, "", NoEC2, NoGCP),
      Attrs(Source(TRUE, HostnameKind, "h1"), "", NoEC2, NoGCP) }

LiveInit ==
    /\ FilterIdle
    /\ attrs \in LiveAttrSets
    /\ pcfg \in Configs
    /\ PusherIdle

\* The goroutine is scheduled whenever it can take a step: client.Do returns
\* (it has a timeout), a backoff delay ends, a select with a ready case takes
\* one; and a select that finds ctx.Done() ready again and again takes it
\* (its choice among ready cases is random).
LiveSpec ==
    /\ LiveInit
    /\ [][Next]_vars
    /\ WF_vars(PusherStep)
    /\ SF_vars(SelectDone)

-----------------------------------------------------------------------------
(***************************************************************************)
(* Properties of the field filter (checked under FilterSpec)               *)
(***************************************************************************)
KeySet(as) == { as[i].k : i \in 1..Len(as) }

\* The value key k has in the attribute map
ValueAt(as, k) == as[CHOOSE i \in 1..Len(as) : as[i].k = k].v

\* Which keys each pattern matches, and which patterns do not compile,
\* written out by hand for the patterns and keys of this model
ExpectedMatches(fld) ==
    CASE fld = <<"^", "b">> -> { <<"b">>, <<"b", "a">> }
      [] fld = <<"a", "$">> -> { <<"a">>, <<"b", "a">> }
      [] fld = <<".", "a">> -> { <<"b", "a">> }
      [] fld = <<"^", "b", "*", "$">> -> { <<"b">> }
      [] OTHER -> {}

InvalidPatterns == { <<"(">>, <<"a", "*", "*">> }

\* The string each value of this model is written as
ExpectedString(v) ==
    CASE v.type = "STRING" -> "x"
      [] v.type = "INT" -> "-12"
      [] v.type = "BOOL" -> "true"
      [] v.type = "NULL" -> ""

\* Keys of the attribute map matched by at least one pattern of flds
MatchedKeys == { k \in KeySet(attributes) :
                   \E r \in 1..Len(flds) : k \in ExpectedMatches(flds[r]) }

\* C1: the keys filterIn keeps and the keys filterOut keeps, for the same
\* filter and the same attribute map, are disjoint and together are exactly
\* the keys of the attribute map.
C1_Partition ==
    (inResult.done /\ outResult.done) =>
        /\ inResult.fields.set \cap outResult.fields.set = {}
        /\ inResult.fields.set \cup outResult.fields.set = KeySet(attributes)

C1_Witness ==
    /\ inResult.done /\ outResult.done
    /\ Len(f.regexes) = 2
    /\ inResult.fields.set # {}
    /\ outResult.fields.set # {}

\* C2: filterIn keeps exactly the keys of the attribute map that match at
\* least one rule, filterOut exactly those that match none; every kept key
\* carries the string form of its value in the map; with no rules filterIn
\* keeps nothing and filterOut everything; neither call changes the map or
\* the rules.
C2_State ==
    /\ fpc = "built" /\ ferr = "nil" =>
         /\ inResult.done => inResult.fields.set = MatchedKeys
         /\ outResult.done => outResult.fields.set = KeySet(attributes) \ MatchedKeys
    /\ inResult.done =>
         /\ inResult.fields.set \subseteq KeySet(attributes)
         /\ \A k \in inResult.fields.set :
              /\ MatchesAny(f, k)
              /\ inResult.fields.val[k] = ExpectedString(ValueAt(attributes, k))
         /\ Len(f.regexes) = 0 => inResult.fields.set = {}
    /\ outResult.done =>
         /\ outResult.fields.set \subseteq KeySet(attributes)
         /\ \A k \in outResult.fields.set :
              /\ ~MatchesAny(f, k)
              /\ outResult.fields.val[k] = ExpectedString(ValueAt(attributes, k))
         /\ Len(f.regexes) = 0 => outResult.fields.set = KeySet(attributes)

C2_FilterInOut ==
    /\ []C2_State
    /\ [][fpc = "built" => (attributes' = attributes /\ f' = f)]_vars

C2_Witness ==
    /\ inResult.done /\ outResult.done
    /\ Len(f.regexes) = 2
    /\ \E k \in inResult.fields.set :
         /\ ValueAt(attributes, k).type = "INT"
         /\ inResult.fields.val[k] = "-12"
         /\ ~MatchString(f.regexes[1], k)
    /\ \E k \in outResult.fields.set : outResult.fields.val[k] = "true"

\* C3: newFilter is all-or-nothing.  If some pattern does not compile, at
\* whatever position, it returns an error and a filter without rules; if all
\* compile, it returns no error and one rule per pattern, in input order.
C3_AllOrNothing ==
    fpc = "built" =>
        IF \E i \in 1..Len(flds) : flds[i] \in InvalidPatterns
        THEN ferr # "nil" /\ f.regexes = <<>>
        ELSE /\ ferr = "nil"
             /\ Len(f.regexes) = Len(flds)
             /\ \A i \in 1..Len(flds) :
                  /\ f.regexes[i] = Compile(flds[i]).prog
                  /\ \A k \in Keys :
                       MatchString(f.regexes[i], k) <=> k \in ExpectedMatches(flds[i])

C3_Witness ==
    /\ fpc = "built"
    /\ Len(flds) = 2
    /\ flds[1] \notin InvalidPatterns
    /\ flds[2] \in InvalidPatterns
    /\ ferr # "nil"
    /\ f.regexes = <<>>

-----------------------------------------------------------------------------
(***************************************************************************)
(* Properties of the merger (checked under Spec)                           *)
(***************************************************************************)
Built == pc # "start"

\* A push cycle has ended and no other has begun
CycleEnded == pc \in {"wait", "done"}

\* What the attributes put in the document before the probes are asked
AttrSeed == metadataFromAttributes(attrs)

\* C4: with useResourceMetadata true, a non-empty value the attributes give
\* to internalHostname, meta.hostname, meta.instanceID or meta.ec2Hostname is
\* the value of that field in the built document, whatever the probes
\* answer.
C4_AttributesWin ==
    (Built /\ pcfg.UseResourceMetadata) =>
        /\ AttrSeed.InternalHostname # "" =>
             hostMetadata.InternalHostname = AttrSeed.InternalHostname
        /\ AttrSeed.Meta.Hostname # "" =>
             hostMetadata.Meta.Hostname = AttrSeed.Meta.Hostname
        /\ AttrSeed.Meta.EC2Hostname # "" =>
             hostMetadata.Meta.EC2Hostname = AttrSeed.Meta.EC2Hostname
        /\ AttrSeed.Meta.InstanceID # "" =>
             hostMetadata.Meta.InstanceID = AttrSeed.Meta.InstanceID

\* C5: with useResourceMetadata true and a hostname-kind identity h1 (not
\* the empty string) in the attributes, the built document has
\* meta.hostname = internalHostname = h1 whatever the Source Provider would
\* answer.
C5_HostnamePrecedence ==
    (/\ Built
     /\ pcfg.UseResourceMetadata
     /\ attrs.source.ok
     /\ attrs.source.Kind = HostnameKind
     /\ attrs.source.Identifier # "") =>
        /\ hostMetadata.Meta.Hostname = attrs.source.Identifier
        /\ hostMetadata.InternalHostname = attrs.source.Identifier
        /\ probes.source.calls = 0

C5_Witness ==
    /\ Built
    /\ pcfg.UseResourceMetadata
    /\ attrs.source = Source(TRUE, HostnameKind, "h1")
    /\ hostMetadata.Meta.Hostname = "h1"
    /\ hostMetadata.InternalHostname = "h1"

\* C6: when the seeded document has no internal hostname, the Source
\* Provider is asked once; a hostname-kind answer without error becomes both
\* internalHostname and meta.hostname, and after an error or an answer of
\* another kind both stay empty.
C6_HostnameGapFill ==
    (Built /\ SeedDocument(pcfg, attrs).InternalHostname = "") =>
        /\ probes.source.calls = 1
        /\ IF probes.source.ans.ok /\ probes.source.ans.Kind = HostnameKind
           THEN /\ hostMetadata.InternalHostname = probes.source.ans.Identifier
                /\ hostMetadata.Meta.Hostname = probes.source.ans.Identifier
           ELSE /\ hostMetadata.InternalHostname = ""
                /\ hostMetadata.Meta.Hostname = ""

C6_Witness ==
    /\ Built
    /\ pcfg.UseResourceMetadata
    /\ SeedDocument(pcfg, attrs).InternalHostname = ""
    /\ probes.source.ans = Source(TRUE, HostnameKind, "h2")
    /\ hostMetadata.InternalHostname = "h2"
    /\ hostMetadata.Meta.Hostname = "h2"

\* C7 as stated: with useResourceMetadata false, meta.instanceID,
\* tags.gcpTags and meta.hostAliases of the built document are all empty,
\* for every attribute set and every answer of the probes.
C7_AllEmpty ==
    (Built /\ ~pcfg.UseResourceMetadata) =>
        /\ hostMetadata.Meta.InstanceID = ""
        /\ hostMetadata.Tags.GCP = <<>>
        /\ hostMetadata.Meta.HostAliases = <<>>

\* C7 amended: with useResourceMetadata false nothing of the built document
\* comes from the attributes: tags.gcpTags and meta.hostAliases are empty,
\* and meta.instanceID is what the EC2 probe answered (empty only when the
\* probe gave none).
C7_NothingFromAttributes ==
    (Built /\ ~pcfg.UseResourceMetadata) =>
        /\ hostMetadata.Tags.GCP = <<>>
        /\ hostMetadata.Meta.HostAliases = <<>>
        /\ probes.ec2.calls = 1
        /\ hostMetadata.Meta.InstanceID = probes.ec2.ans.InstanceID
        /\ hostMetadata.Meta.EC2Hostname = probes.ec2.ans.EC2Hostname
        /\ hostMetadata.Tags.OTel = pcfg.ConfigTags

C7_Witness ==
    /\ Built
    /\ ~pcfg.UseResourceMetadata
    /\ attrs.cloudProvider = "aws"
    /\ attrs.ec2.InstanceID = "i-1"
    /\ hostMetadata.Meta.InstanceID = "i-2"

-----------------------------------------------------------------------------
(***************************************************************************)
(* Properties of delivery and retry (checked under Spec)                   *)
(***************************************************************************)
\* C8: a document with an empty meta.hostname is never sent: a push of it
\* issues no HTTP request and returns success, which is not retried, so the
\* push cycle makes one attempt and ends as a success.
C8_SkipRule ==
    (Built /\ hostMetadata.Meta.Hostname = "") =>
        /\ cycleRequests = 0
        /\ inFlight = 0
        /\ pc \notin {"inflight", "backoff"}
        /\ CycleEnded =>
             /\ attempts = 1
             /\ lastAttempt.skipped
             /\ lastAttempt.requests = 0
             /\ lastAttempt.err = "nil"
             /\ lastCycle = [err |-> "nil", log |-> "info", returned |-> "nil",
                             attempts |-> 1]

C8_Witness ==
    /\ pc = "wait"
    /\ hostMetadata.Meta.Hostname = ""
    /\ cycles = 2
    /\ lastAttempt.skipped
    /\ lastCycle.err = "nil"

\* C9: an attempt on a document with a hostname issues exactly one HTTP POST
\* to {metricsEndpoint}/intake, and returns an error for a transport failure
\* and for a status >= 400, and success for any status < 400.
C9_OneAttempt ==
    (Built /\ hostMetadata.Meta.Hostname # "") =>
        /\ cycleRequests = attempts
        /\ attempts > 0 =>
             /\ ~lastAttempt.skipped
             /\ lastAttempt.requests = 1
             /\ lastAttempt.request.Method = "POST"
             /\ lastAttempt.request.path = "https://api/intake"
             /\ IF pc = "inflight"
                THEN lastAttempt.err = "pending" /\ inFlight = 1
                ELSE /\ inFlight = 0
                     /\ lastAttempt.err \in {"nil", "transport", "rejected"}
                     /\ lastAttempt.outcome.err => lastAttempt.err = "transport"
                     /\ (~lastAttempt.outcome.err /\ lastAttempt.outcome.StatusCode >= 400)
                          => lastAttempt.err = "rejected"
                     /\ (~lastAttempt.outcome.err /\ lastAttempt.outcome.StatusCode < 400)
                          => lastAttempt.err = "nil"

C9_Witness ==
    /\ pc = "backoff"
    /\ lastAttempt.requests = 1
    /\ ~lastAttempt.outcome.err
    /\ lastAttempt.outcome.StatusCode = 400
    /\ lastAttempt.err = "rejected"

\* C10: a push cycle whose every attempt fails makes exactly MaxAttempts
\* attempts and ends with the retry-exhausted error, which is logged as a
\* warning and not handed to Pusher, which goes on to its select.
C10_RetryTermination ==
    /\ attempts <= MaxAttempts
    /\ (CycleEnded /\ failures = attempts) =>
         /\ attempts = MaxAttempts
         /\ cycleRequests = MaxAttempts
         /\ lastCycle = [err |-> "RetryExhausted", log |-> "warn",
                         returned |-> "nil", attempts |-> MaxAttempts]
    /\ (CycleEnded /\ lastCycle.err = "RetryExhausted") => failures = MaxAttempts
    /\ lastCycle.returned = "nil"

C10_Witness ==
    /\ pc = "wait"
    /\ failures = MaxAttempts
    /\ attempts = MaxAttempts
    /\ lastCycle.err = "RetryExhausted"
    /\ lastCycle.log = "warn"

-----------------------------------------------------------------------------
(***************************************************************************)
(* Properties of the scheduling loop (checked under Spec)                  *)
(***************************************************************************)
\* C11 as stated: when Pusher has returned, it has run one push cycle more
\* than ticks had passed when ctx was cancelled (one cycle when none had).
C11_ExactCount ==
    pc = "done" => cycles = cancelAt.ticks + 1

\* C11 amended: Pusher runs the startup cycle and one cycle for every tick
\* its select takes.  A tick that finds another still buffered is dropped,
\* and a tick still buffered is not yet (or, after return, never) served.
\* So there are never more than ticks + 1 cycles, exactly one while no tick
\* has passed, and exactly ticks + 1 once every tick has been taken.  Every
\* request carries the built document.
C11_PushCount ==
    Built =>
        /\ cycles = 1 + ticks - ticksDropped - (IF tickPending THEN 1 ELSE 0)
        /\ cycles >= 1 /\ cycles <= ticks + 1
        /\ ticks = 0 => cycles = 1
        /\ (attempts > 0 /\ ~lastAttempt.skipped) =>
             lastAttempt.request.body = hostMetadata

C11_Witness ==
    /\ pc = "done"
    /\ cancelAt.ticks = 2
    /\ ticksDropped = 0
    /\ cycles = 3
    /\ lastAttempt.requests = 1
    /\ lastAttempt.request.body = hostMetadata

\* C12: the pushes of one Pusher are strictly sequential.  At most one
\* request is in flight, and only inside pushMetadata; a push cycle begins
\* only when none is in progress; the first cycle is the startup push, begun
\* without taking a tick, and every later one is begun by the select taking a
\* tick after the cycle before it has ended with all its attempts.
C12_OneAtATime ==
    /\ inFlight \in {0, 1}
    /\ inFlight = 1 <=> pc = "inflight"
    /\ (Built /\ ~InPush) => lastCycle.attempts = attempts

C12_Sequential ==
    /\ []C12_OneAtATime
    /\ [][cycles' # cycles =>
            /\ cycles' = cycles + 1
            /\ ~InPush
            /\ inFlight = 0
            /\ IF cycles = 0
               THEN pc = "start" /\ tickPending' = tickPending
               ELSE /\ pc = "wait"
                    /\ tickPending /\ ~tickPending'
                    /\ lastCycle.attempts = attempts]_vars

C12_Witness ==
    /\ pc = "inflight"
    /\ inFlight = 1
    /\ cycles = 2
    /\ attempts = 2
    /\ tickPending

\* C13: no outcome of a delivery ends Pusher.  It returns only from its
\* select and only when ctx is cancelled; whatever the attempts of a push
\* cycle come back with (success, transport error, rejection, retries
\* exhausted), the cycle ends with Pusher at its select.
C13_OnlyCancelEnds ==
    /\ [](pc = "done" => cancelled)
    /\ [][(pc' = "done" /\ pc # "done") => (pc = "wait" /\ cancelled)]_vars
    /\ [][(InPush /\ pc' # pc) => pc' \in {"attempt", "inflight", "backoff", "wait"}]_vars
    /\ [][(InPush /\ ~InPush') =>
            /\ pc' = "wait"
            /\ lastCycle'.err \in {"nil", "RetryExhausted"}
            /\ lastCycle'.returned = "nil"]_vars

C13_Witness ==
    /\ pc = "wait"
    /\ ~cancelled
    /\ cycles = 2
    /\ lastCycle.err = "RetryExhausted"
    /\ lastAttempt.err = "transport"

\* C14: the document is built once, before the startup push.  No push
\* cycle begins before the build; fillHostMetadata runs once and asks each
\* probe at most once; after the build the document never changes, and every
\* request of every cycle and attempt carries it.
C14_BuiltState ==
    /\ ~Built => (hostMetadata = EmptyHostMetadata /\ probes = NoProbes /\ cycles = 0)
    /\ Built => probes.gohai = 1
    /\ probes.source.calls <= 1
    /\ probes.ec2.calls <= 1
    /\ probes.system.calls <= 1
    /\ (attempts > 0 /\ ~lastAttempt.skipped) => lastAttempt.request.body = hostMetadata

C14_BuiltOnce ==
    /\ []C14_BuiltState
    /\ [][Built => (hostMetadata' = hostMetadata /\ probes' = probes)]_vars

C14_Witness ==
    /\ pc = "inflight"
    /\ cycles = 3
    /\ attempts = 2
    /\ probes.gohai = 1
    /\ probes.source.calls = 1
    /\ lastAttempt.request.body = hostMetadata
    /\ hostMetadata.Meta.Hostname = "h2"

\* C16: when Pusher has returned, no push is in progress or in flight, none
\* begins any more, and the ticker has been stopped (by the deferred
\* ticker.Stop(), which runs on the one path by which Pusher returns) and
\* delivers no further tick; the ticker is not stopped before that.
C16_TerminalState ==
    /\ pc = "done" => (tickerStopped /\ inFlight = 0 /\ openBodies = 0)
    /\ tickerStopped => pc = "done"

C16_Terminal ==
    /\ []C16_TerminalState
    /\ [][pc = "done" => (pushVars' = pushVars /\ ticks' = ticks
                          /\ tickPending' = tickPending)]_vars

C16_Witness ==
    /\ pc = "done"
    /\ tickerStopped
    /\ tickPending
    /\ ticks < MaxTicks
    /\ lastCycle.err = "RetryExhausted"
    /\ inFlight = 0

\* C17: a cancellation does not cut a push short.  While a push cycle is in
\* progress Pusher does not return, cancelled or not: every attempt is
\* followed by what its result alone asks for (the end of the cycle after a
\* success or the last attempt, a backoff and another attempt otherwise), and
\* Pusher returns only from its select.
C17_NormalOutcome ==
    CycleEnded =>
        \/ lastCycle.err = "nil" /\ lastAttempt.err = "nil"
        \/ /\ lastCycle.err = "RetryExhausted"
           /\ lastAttempt.err \in {"transport", "rejected"}
           /\ attempts = MaxAttempts

C17_NoPreemption ==
    /\ []C17_NormalOutcome
    /\ [][InPush => pc' # "done"]_vars
    /\ [][(pc' = "done" /\ pc # "done") => pc = "wait"]_vars
    /\ [][(pc = "inflight" /\ pc' # pc) =>
            pc' = IF lastAttempt'.err = "nil" \/ attempts = MaxAttempts
                  THEN "wait" ELSE "backoff"]_vars
    /\ [][(pc = "backoff" /\ pc' # pc) => pc' = "attempt"]_vars

C17_Witness ==
    /\ pc = "wait"
    /\ cancelled
    /\ cancelAt.pc = "push"
    /\ cycles = 1
    /\ attempts = MaxAttempts
    /\ lastCycle.err = "RetryExhausted"

-----------------------------------------------------------------------------
(***************************************************************************)
(* Further properties of the merger and of delivery (checked under Spec)   *)
(***************************************************************************)
\* C18: in the fill-gap pass a field is written only if still unset.  With
\* a seeded meta.ec2Hostname the EC2 probe is not asked and ec2Hostname and
\* instanceID keep their seeded values; without one the probe is asked and
\* fills those of the two fields that are still unset.
C18_OnlyUnset ==
    Built =>
        LET seed == SeedDocument(pcfg, attrs) IN
        IF seed.Meta.EC2Hostname # ""
        THEN /\ probes.ec2.calls = 0
             /\ hostMetadata.Meta.EC2Hostname = seed.Meta.EC2Hostname
             /\ hostMetadata.Meta.InstanceID = seed.Meta.InstanceID
        ELSE /\ probes.ec2.calls = 1
             /\ hostMetadata.Meta.EC2Hostname = probes.ec2.ans.EC2Hostname
             /\ hostMetadata.Meta.InstanceID =
                  IF seed.Meta.InstanceID = ""
                  THEN probes.ec2.ans.InstanceID
                  ELSE seed.Meta.InstanceID

\* An attempt has come back from client.Do
AttemptReturned == attempts > 0 /\ ~lastAttempt.skipped /\ pc # "inflight"

\* C19 as stated: the body of every response an attempt obtains is drained
\* and closed before the attempt returns, and no body stays open.
C19_DrainedAndClosed ==
    /\ openBodies = 0
    /\ AttemptReturned =>
         /\ lastAttempt.closed = lastAttempt.bodies
         /\ lastAttempt.drained = lastAttempt.bodies

\* C19 amended: the body of every response an attempt obtains is closed
\* before the attempt returns, for a status below 400 and for one of 400 or
\* above alike, without being read; a transport error brings no response
\* and so no body; no body stays open.
C19_Closed ==
    /\ openBodies = 0
    /\ AttemptReturned =>
         /\ lastAttempt.bodies = (IF lastAttempt.outcome.err THEN 0 ELSE 1)
         /\ lastAttempt.closed = lastAttempt.bodies
         /\ lastAttempt.drained = 0

C19_Witness ==
    /\ pc = "wait"
    /\ cycles = 2
    /\ lastAttempt.outcome.StatusCode = 503
    /\ lastAttempt.bodies = 1
    /\ lastAttempt.closed = 1
    /\ openBodies = 0

\* C20: internalHostname and meta.hostname of the document are always
\* equal, being written together, so pushMetadata skips the document exactly
\* when its internalHostname is empty.
C20_SameHostname ==
    /\ hostMetadata.InternalHostname = hostMetadata.Meta.Hostname
    /\ attempts > 0 => (lastAttempt.skipped <=> hostMetadata.InternalHostname = "")
    /\ (Built /\ attempts > 0 /\ ~lastAttempt.skipped) =>
         lastAttempt.request.body.InternalHostname # ""

C20_Witness ==
    /\ Built
    /\ ~pcfg.UseResourceMetadata
    /\ hostMetadata.InternalHostname = "h2"
    /\ hostMetadata.Meta.Hostname = "h2"
    /\ attempts > 0
    /\ ~lastAttempt.skipped

-----------------------------------------------------------------------------
(***************************************************************************)
(* Termination (checked under LiveSpec)                                    *)
(***************************************************************************)
\* C15: once ctx is cancelled, Pusher eventually returns, also when the
\* cancellation comes during a push and when ticks keep arriving.
C15_CancelTerminates == cancelled ~> (pc = "done")

C15_Witness ==
    /\ pc = "done"
    /\ cancelAt.pc = "push"
    /\ tickPending
    /\ cycles = 2
    /\ lastCycle.err = "RetryExhausted"

=============================================================================
